---------------------------- MODULE Spec2Model ----------------------------
(***************************************************************************)
(* Model of app_main.py: the /check_phone service.                         *)
(*                                                                         *)
(* A Python str is a sequence of characters; each character is a          *)
(* one-character TLA+ string, except the characters outside printable     *)
(* ASCII, which are named by code point ("U+0663" ARABIC-INDIC DIGIT       *)
(* THREE, "U+00A0" NO-BREAK SPACE).  A fixed message of the program is a   *)
(* one-token sequence holding an ASCII name of the (Russian) literal.      *)
(* An exception is its class name, the names of the classes of its MRO     *)
(* and its str().                                                          *)
(* Coroutines run on one event loop: the code between two awaits is one    *)
(* atomic action, and every await of an external call (login,              *)
(* get_user_info_by_phone, disconnect) is a point where other tasks run.   *)
(***************************************************************************)
EXTENDS Naturals, Sequences, FiniteSets

VARIABLES
    _client,      \* module global _client: 0 is None, else the handle
    pc,           \* request task -> "idle" | "login" | "lookup" | "done"
    phone,        \* request task -> the phone argument of check_phone
    route,        \* request task -> "GET" | "POST" | "" (not started)
    client,       \* request task -> local `client` of its _build_result_string frame,
                  \* the handle its lookup is issued on (0: unset, or the frame is gone)
    loginCalls,   \* request task -> number of login() calls it made
    lookupCalls,  \* request task -> number of get_user_info_by_phone() calls it made
    raised,       \* request task -> the exception raised inside the handler
    resp,         \* request task -> the HTTP response of the handler
    created,      \* handles returned by a successful login()
    disconnects,  \* handle -> number of disconnect() calls on it
    spc,          \* shutdown task -> "idle" | "disconnect" | "done" (handle cleared)
                  \* | "noop" (found no handle) | "failed" (disconnect raised)
    sclient,      \* shutdown task -> the handle whose disconnect() it awaits (0: none)
    nin,          \* _normalize_phone under test: argument
    nout,         \* _normalize_phone under test: outcome
    tin,          \* result translation under test: the lookup record
    tout          \* result translation under test: outcome

vars == <<_client, pc, phone, route, client, loginCalls, lookupCalls, raised, resp,
          created, disconnects, spc, sclient, nin, nout, tin, tout>>
svars == <<_client, pc, phone, route, client, loginCalls, lookupCalls, raised, resp,
           created, disconnects, spc, sclient>>

---------------------------------------------------------------------------
(* Bounds of the model                                                     *)

NumRequests == 2
NumShutdowns == 2
MaxRun == 21
MaxPrefix == 2

(* Program constants: the quantifier of the pattern \+\d{5,20}             *)
MinDigits == 5
MaxDigits == 20

Requests == 1..NumRequests
Shutdowns == 1..NumShutdowns
Handles == Requests   \* the handle a request's login() returns is named after it

---------------------------------------------------------------------------
(* Characters.  Python's str-pattern classes \s and \d are Unicode-aware:  *)
(* \d is every decimal digit (category Nd, 660 characters) and \s is the   *)
(* 29 characters of str.isspace().  A character outside printable ASCII is *)
(* named by its code point; the ASCII control characters are also accepted *)
(* as themselves.                                                          *)

AsciiDigits == {"0", "1", "2", "3", "4", "5", "6", "7", "8", "9"}

UnicodeDigits ==
    {
      "U+0660", "U+0661", "U+0662", "U+0663", "U+0664", "U+0665", "U+0666", "U+0667",
      "U+0668", "U+0669", "U+06F0", "U+06F1", "U+06F2", "U+06F3", "U+06F4", "U+06F5",
      "U+06F6", "U+06F7", "U+06F8", "U+06F9", "U+07C0", "U+07C1", "U+07C2", "U+07C3",
      "U+07C4", "U+07C5", "U+07C6", "U+07C7", "U+07C8", "U+07C9", "U+0966", "U+0967",
      "U+0968", "U+0969", "U+096A", "U+096B", "U+096C", "U+096D", "U+096E", "U+096F",
      "U+09E6", "U+09E7", "U+09E8", "U+09E9", "U+09EA", "U+09EB", "U+09EC", "U+09ED",
      "U+09EE", "U+09EF", "U+0A66", "U+0A67", "U+0A68", "U+0A69", "U+0A6A", "U+0A6B",
      "U+0A6C", "U+0A6D", "U+0A6E", "U+0A6F", "U+0AE6", "U+0AE7", "U+0AE8", "U+0AE9",
      "U+0AEA", "U+0AEB", "U+0AEC", "U+0AED", "U+0AEE", "U+0AEF", "U+0B66", "U+0B67",
      "U+0B68", "U+0B69", "U+0B6A", "U+0B6B", "U+0B6C", "U+0B6D", "U+0B6E", "U+0B6F",
      "U+0BE6", "U+0BE7", "U+0BE8", "U+0BE9", "U+0BEA", "U+0BEB", "U+0BEC", "U+0BED",
      "U+0BEE", "U+0BEF", "U+0C66", "U+0C67", "U+0C68", "U+0C69", "U+0C6A", "U+0C6B",
      "U+0C6C", "U+0C6D", "U+0C6E", "U+0C6F", "U+0CE6", "U+0CE7", "U+0CE8", "U+0CE9",
      "U+0CEA", "U+0CEB", "U+0CEC", "U+0CED", "U+0CEE", "U+0CEF", "U+0D66", "U+0D67",
      "U+0D68", "U+0D69", "U+0D6A", "U+0D6B", "U+0D6C", "U+0D6D", "U+0D6E", "U+0D6F",
      "U+0DE6", "U+0DE7", "U+0DE8", "U+0DE9", "U+0DEA", "U+0DEB", "U+0DEC", "U+0DED",
      "U+0DEE", "U+0DEF", "U+0E50", "U+0E51", "U+0E52", "U+0E53", "U+0E54", "U+0E55",
      "U+0E56", "U+0E57", "U+0E58", "U+0E59", "U+0ED0", "U+0ED1", "U+0ED2", "U+0ED3",
      "U+0ED4", "U+0ED5", "U+0ED6", "U+0ED7", "U+0ED8", "U+0ED9", "U+0F20", "U+0F21",
      "U+0F22", "U+0F23", "U+0F24", "U+0F25", "U+0F26", "U+0F27", "U+0F28", "U+0F29",
      "U+1040", "U+1041", "U+1042", "U+1043", "U+1044", "U+1045", "U+1046", "U+1047",
      "U+1048", "U+1049", "U+1090", "U+1091", "U+1092", "U+1093", "U+1094", "U+1095",
      "U+1096", "U+1097", "U+1098", "U+1099", "U+17E0", "U+17E1", "U+17E2", "U+17E3",
      "U+17E4", "U+17E5", "U+17E6", "U+17E7", "U+17E8", "U+17E9", "U+1810", "U+1811",
      "U+1812", "U+1813", "U+1814", "U+1815", "U+1816", "U+1817", "U+1818", "U+1819",
      "U+1946", "U+1947", "U+1948", "U+1949", "U+194A", "U+194B", "U+194C", "U+194D",
      "U+194E", "U+194F", "U+19D0", "U+19D1", "U+19D2", "U+19D3", "U+19D4", "U+19D5",
      "U+19D6", "U+19D7", "U+19D8", "U+19D9", "U+1A80", "U+1A81", "U+1A82", "U+1A83",
      "U+1A84", "U+1A85", "U+1A86", "U+1A87", "U+1A88", "U+1A89", "U+1A90", "U+1A91",
      "U+1A92", "U+1A93", "U+1A94", "U+1A95", "U+1A96", "U+1A97", "U+1A98", "U+1A99",
      "U+1B50", "U+1B51", "U+1B52", "U+1B53", "U+1B54", "U+1B55", "U+1B56", "U+1B57",
      "U+1B58", "U+1B59", "U+1BB0", "U+1BB1", "U+1BB2", "U+1BB3", "U+1BB4", "U+1BB5",
      "U+1BB6", "U+1BB7", "U+1BB8", "U+1BB9", "U+1C40", "U+1C41", "U+1C42", "U+1C43",
      "U+1C44", "U+1C45", "U+1C46", "U+1C47", "U+1C48", "U+1C49", "U+1C50", "U+1C51",
      "U+1C52", "U+1C53", "U+1C54", "U+1C55", "U+1C56", "U+1C57", "U+1C58", "U+1C59",
      "U+A620", "U+A621", "U+A622", "U+A623", "U+A624", "U+A625", "U+A626", "U+A627",
      "U+A628", "U+A629", "U+A8D0", "U+A8D1", "U+A8D2", "U+A8D3", "U+A8D4", "U+A8D5",
      "U+A8D6", "U+A8D7", "U+A8D8", "U+A8D9", "U+A900", "U+A901", "U+A902", "U+A903",
      "U+A904", "U+A905", "U+A906", "U+A907", "U+A908", "U+A909", "U+A9D0", "U+A9D1",
      "U+A9D2", "U+A9D3", "U+A9D4", "U+A9D5", "U+A9D6", "U+A9D7", "U+A9D8", "U+A9D9",
      "U+A9F0", "U+A9F1", "U+A9F2", "U+A9F3", "U+A9F4", "U+A9F5", "U+A9F6", "U+A9F7",
      "U+A9F8", "U+A9F9", "U+AA50", "U+AA51", "U+AA52", "U+AA53", "U+AA54", "U+AA55",
      "U+AA56", "U+AA57", "U+AA58", "U+AA59", "U+ABF0", "U+ABF1", "U+ABF2", "U+ABF3",
      "U+ABF4", "U+ABF5", "U+ABF6", "U+ABF7", "U+ABF8", "U+ABF9", "U+FF10", "U+FF11",
      "U+FF12", "U+FF13", "U+FF14", "U+FF15", "U+FF16", "U+FF17", "U+FF18", "U+FF19",
      "U+104A0", "U+104A1", "U+104A2", "U+104A3", "U+104A4", "U+104A5", "U+104A6", "U+104A7",
      "U+104A8", "U+104A9", "U+10D30", "U+10D31", "U+10D32", "U+10D33", "U+10D34", "U+10D35",
      "U+10D36", "U+10D37", "U+10D38", "U+10D39", "U+11066", "U+11067", "U+11068", "U+11069",
      "U+1106A", "U+1106B", "U+1106C", "U+1106D", "U+1106E", "U+1106F", "U+110F0", "U+110F1",
      "U+110F2", "U+110F3", "U+110F4", "U+110F5", "U+110F6", "U+110F7", "U+110F8", "U+110F9",
      "U+11136", "U+11137", "U+11138", "U+11139", "U+1113A", "U+1113B", "U+1113C", "U+1113D",
      "U+1113E", "U+1113F", "U+111D0", "U+111D1", "U+111D2", "U+111D3", "U+111D4", "U+111D5",
      "U+111D6", "U+111D7", "U+111D8", "U+111D9", "U+112F0", "U+112F1", "U+112F2", "U+112F3",
      "U+112F4", "U+112F5", "U+112F6", "U+112F7", "U+112F8", "U+112F9", "U+11450", "U+11451",
      "U+11452", "U+11453", "U+11454", "U+11455", "U+11456", "U+11457", "U+11458", "U+11459",
      "U+114D0", "U+114D1", "U+114D2", "U+114D3", "U+114D4", "U+114D5", "U+114D6", "U+114D7",
      "U+114D8", "U+114D9", "U+11650", "U+11651", "U+11652", "U+11653", "U+11654", "U+11655",
      "U+11656", "U+11657", "U+11658", "U+11659", "U+116C0", "U+116C1", "U+116C2", "U+116C3",
      "U+116C4", "U+116C5", "U+116C6", "U+116C7", "U+116C8", "U+116C9", "U+11730", "U+11731",
      "U+11732", "U+11733", "U+11734", "U+11735", "U+11736", "U+11737", "U+11738", "U+11739",
      "U+118E0", "U+118E1", "U+118E2", "U+118E3", "U+118E4", "U+118E5", "U+118E6", "U+118E7",
      "U+118E8", "U+118E9", "U+11950", "U+11951", "U+11952", "U+11953", "U+11954", "U+11955",
      "U+11956", "U+11957", "U+11958", "U+11959", "U+11C50", "U+11C51", "U+11C52", "U+11C53",
      "U+11C54", "U+11C55", "U+11C56", "U+11C57", "U+11C58", "U+11C59", "U+11D50", "U+11D51",
      "U+11D52", "U+11D53", "U+11D54", "U+11D55", "U+11D56", "U+11D57", "U+11D58", "U+11D59",
      "U+11DA0", "U+11DA1", "U+11DA2", "U+11DA3", "U+11DA4", "U+11DA5", "U+11DA6", "U+11DA7",
      "U+11DA8", "U+11DA9", "U+16A60", "U+16A61", "U+16A62", "U+16A63", "U+16A64", "U+16A65",
      "U+16A66", "U+16A67", "U+16A68", "U+16A69", "U+16AC0", "U+16AC1", "U+16AC2", "U+16AC3",
      "U+16AC4", "U+16AC5", "U+16AC6", "U+16AC7", "U+16AC8", "U+16AC9", "U+16B50", "U+16B51",
      "U+16B52", "U+16B53", "U+16B54", "U+16B55", "U+16B56", "U+16B57", "U+16B58", "U+16B59",
      "U+1D7CE", "U+1D7CF", "U+1D7D0", "U+1D7D1", "U+1D7D2", "U+1D7D3", "U+1D7D4", "U+1D7D5",
      "U+1D7D6", "U+1D7D7", "U+1D7D8", "U+1D7D9", "U+1D7DA", "U+1D7DB", "U+1D7DC", "U+1D7DD",
      "U+1D7DE", "U+1D7DF", "U+1D7E0", "U+1D7E1", "U+1D7E2", "U+1D7E3", "U+1D7E4", "U+1D7E5",
      "U+1D7E6", "U+1D7E7", "U+1D7E8", "U+1D7E9", "U+1D7EA", "U+1D7EB", "U+1D7EC", "U+1D7ED",
      "U+1D7EE", "U+1D7EF", "U+1D7F0", "U+1D7F1", "U+1D7F2", "U+1D7F3", "U+1D7F4", "U+1D7F5",
      "U+1D7F6", "U+1D7F7", "U+1D7F8", "U+1D7F9", "U+1D7FA", "U+1D7FB", "U+1D7FC", "U+1D7FD",
      "U+1D7FE", "U+1D7FF", "U+1E140", "U+1E141", "U+1E142", "U+1E143", "U+1E144", "U+1E145",
      "U+1E146", "U+1E147", "U+1E148", "U+1E149", "U+1E2F0", "U+1E2F1", "U+1E2F2", "U+1E2F3",
      "U+1E2F4", "U+1E2F5", "U+1E2F6", "U+1E2F7", "U+1E2F8", "U+1E2F9", "U+1E950", "U+1E951",
      "U+1E952", "U+1E953", "U+1E954", "U+1E955", "U+1E956", "U+1E957", "U+1E958", "U+1E959",
      "U+1FBF0", "U+1FBF1", "U+1FBF2", "U+1FBF3", "U+1FBF4", "U+1FBF5", "U+1FBF6", "U+1FBF7",
      "U+1FBF8", "U+1FBF9" }

IsDigit(c) == c \in AsciiDigits \/ c \in UnicodeDigits

AsciiSpaces == {" ", "\t", "\n", "\r", "\f", "", "", "", "", ""}

UnicodeSpaces ==
    {
      "U+0009", "U+000A", "U+000B", "U+000C", "U+000D", "U+001C", "U+001D", "U+001E",
      "U+001F", "U+0020", "U+0085", "U+00A0", "U+1680", "U+2000", "U+2001", "U+2002",
      "U+2003", "U+2004", "U+2005", "U+2006", "U+2007", "U+2008", "U+2009", "U+200A",
      "U+2028", "U+2029", "U+202F", "U+205F", "U+3000" }

IsSpace(c) == c \in AsciiSpaces \/ c \in UnicodeSpaces

(* Message literals                                                        *)
MSG_EMPTY_PHONE == <<"Pustoj nomer telefona">>
MSG_BAD_FORMAT == <<"Nevernyj format nomera telefona">>
MSG_UNKNOWN_ERROR == <<"Neizvestnaya oshibka">>
MSG_NOT_ON_TELEGRAM == <<"Net takogo polzovatelya v Telegram ili zablokirovano dobavlenie v kontakty">>
MSG_MULTIPLE == <<"Nomer privyazan k neskolkim akkauntam (neozhidannaya situaciya)">>
MSG_NO_USERNAME == <<"U polzovatelya net username">>
MSG_UNDETERMINED == <<"Ne udalos opredelit informaciyu po nomeru">>
MSG_INTERNAL == <<"Vnutrennyaya oshibka servisa">>

---------------------------------------------------------------------------
(* Exceptions and function outcomes                                        *)

NoExc == [stage |-> "none", kind |-> "", mro |-> {}, text |-> <<>>]
Exc(stage, kind, mro, text) == [stage |-> stage, kind |-> kind, mro |-> mro, text |-> text]

(* type(e).__mro__ of the exception classes used here                      *)
MRO_ValueError == {"ValueError", "Exception", "BaseException"}
MRO_UnicodeEncodeError ==
    {"UnicodeEncodeError", "UnicodeError", "ValueError", "Exception", "BaseException"}
MRO_ConnectionError == {"ConnectionError", "OSError", "Exception", "BaseException"}
MRO_CancelledError == {"CancelledError", "BaseException"}

Returned(v) == [state |-> "returned", kind |-> "", val |-> v]
Raised(kind, text) == [state |-> "raised", kind |-> kind, val |-> text]
Pending == [state |-> "pending", kind |-> "", val |-> <<>>]

(* isinstance(e, ValueError): ValueError is among the classes of the MRO,  *)
(* that is, e is a ValueError or of any subclass of it                     *)
IsValueError(mro) == "ValueError" \in mro

(* isinstance(e, Exception)                                                *)
IsException(mro) == "Exception" \in mro

---------------------------------------------------------------------------
(* _normalize_phone                                                        *)

(* re.sub(r"\s+", "", s): scan left to right, dropping each maximal run    *)
(* of whitespace                                                           *)
RECURSIVE re_sub_spaces(_)
re_sub_spaces(s) ==
    IF s = <<>> THEN <<>>
    ELSE IF IsSpace(Head(s)) THEN re_sub_spaces(Tail(s))
    ELSE <<Head(s)>> \o re_sub_spaces(Tail(s))

startswith_plus(s) == Len(s) >= 1 /\ s[1] = "+"

(* length of the longest prefix of s made of \d characters, at most `most` *)
RECURSIVE match_digits(_, _)
match_digits(s, most) ==
    IF most = 0 \/ s = <<>> \/ ~IsDigit(Head(s)) THEN 0
    ELSE 1 + match_digits(Tail(s), most - 1)

(* re.match in place of re.fullmatch: the pattern need not end the string  *)
re_match_phone(s) ==
    /\ Len(s) >= 1
    /\ s[1] = "+"
    /\ match_digits(Tail(s), MaxDigits) >= MinDigits

(* re.fullmatch(r"\+\d{5,20}", s): a literal '+', then a greedy run of 5   *)
(* to 20 digits that must end the string                                   *)
re_fullmatch_phone(s) ==
    /\ Len(s) >= 1
    /\ s[1] = "+"
    /\ LET n == match_digits(Tail(s), MaxDigits)
       IN  n >= MinDigits /\ n = Len(s) - 1

_normalize_phone(p) ==
    IF p = <<>> THEN Raised("ValueError", MSG_EMPTY_PHONE)
    ELSE LET stripped == re_sub_spaces(p)
             normalized == IF startswith_plus(stripped) THEN stripped
                           ELSE <<"+">> \o stripped
         IN  IF ~re_fullmatch_phone(normalized)
             THEN Raised("ValueError", MSG_BAD_FORMAT)
             ELSE Returned(normalized)

---------------------------------------------------------------------------
(* Python values of a lookup record's fields, and the record               *)

PyNone == [t |-> "None", s |-> <<>>, n |-> 0]
PyStr(s) == [t |-> "str", s |-> s, n |-> 0]
PyInt(n) == [t |-> "int", s |-> <<>>, n |-> n]

(* bool(v)                                                                 *)
Truthy(v) ==
    CASE v.t = "None" -> FALSE
      [] v.t = "str" -> v.s # <<>>
      [] v.t = "int" -> v.n # 0

(* str(v) of a str                                                         *)
PyToStr(v) == v.s

(* A lookup record: None, or a dict from some of the keys to values        *)
InfoNone == [none |-> TRUE, d |-> <<>>]
InfoDict(d) == [none |-> FALSE, d |-> d]

HasKey(info, k) == k \in DOMAIN info.d
(* dict.get(k): None when the key is missing                               *)
DictGet(info, k) == IF HasKey(info, k) THEN info.d[k] ELSE PyNone

(* `frag in text`: an error text is a sequence of phrases, and the two     *)
(* phrases searched for occur in it exactly when they are among them       *)
Contains(text, frag) == \E i \in 1..Len(text) : text[i] = frag

(* the username looked at before the error field                           *)
TranslateInfoUsernameFirst(info) ==
    IF info.none \/ DOMAIN info.d = {} THEN MSG_UNKNOWN_ERROR
    ELSE IF Truthy(DictGet(info, "username"))
    THEN <<"@">> \o PyToStr(DictGet(info, "username"))
    ELSE IF HasKey(info, "error") /\ Truthy(info.d["error"])
    THEN LET error_text == PyToStr(info.d["error"])
         IN  IF Contains(error_text, "not on Telegram") THEN MSG_NOT_ON_TELEGRAM
             ELSE IF Contains(error_text, "multiple Telegram accounts") THEN MSG_MULTIPLE
             ELSE error_text
    ELSE IF Truthy(DictGet(info, "id")) THEN MSG_NO_USERNAME
    ELSE MSG_UNDETERMINED

(* _build_result_string, from `if not info` on                             *)
TranslateInfo(info) ==
    IF info.none \/ DOMAIN info.d = {} THEN MSG_UNKNOWN_ERROR
    ELSE IF HasKey(info, "error") /\ Truthy(info.d["error"])
    THEN LET error_text == PyToStr(info.d["error"])
         IN  IF Contains(error_text, "not on Telegram") THEN MSG_NOT_ON_TELEGRAM
             ELSE IF Contains(error_text, "multiple Telegram accounts") THEN MSG_MULTIPLE
             ELSE error_text
    ELSE LET username == DictGet(info, "username")
         IN  IF Truthy(username) THEN <<"@">> \o PyToStr(username)
             ELSE IF Truthy(DictGet(info, "id")) THEN MSG_NO_USERNAME
             ELSE MSG_UNDETERMINED

---------------------------------------------------------------------------
(* Inputs of the service model                                             *)

(* phone arguments: empty, whitespace only, valid after normalization,     *)
(* a letter among the digits                                               *)
ServicePhones ==
    { <<>>,
      <<" ">>,
      <<"1", "2", " ", "3", "4", "5">>,
      <<"+", "1", "2", "a", "4", "5">> }

(* what get_user_info_by_phone returns here: an account with a username    *)
(* (every kind of record is translated in SpecTranslate)                   *)
ServiceInfos ==
    { InfoDict([username |-> PyStr(<<"a", "l", "i", "c", "e">>), id |-> PyInt(123)]) }

(* what login() and get_user_info_by_phone may raise: a ValueError (the    *)
(* client library rejects the configured API id), a transport error, or    *)
(* the CancelledError thrown into a task cancelled while it awaits         *)
ExternalExcs ==
    { [kind |-> "ValueError", mro |-> MRO_ValueError,
       text |-> <<"Your API ID or Hash cannot be empty or None">>],
      [kind |-> "ConnectionError", mro |-> MRO_ConnectionError,
       text |-> <<"Connection to Telegram failed 5 time(s)">>],
      [kind |-> "CancelledError", mro |-> MRO_CancelledError, text |-> <<>>] }

(* no response built: the handler has not ended, or an exception left it   *)
NoResp == [status |-> 0, key |-> "", text |-> <<>>]
Response(status, key, text) == [status |-> status, key |-> key, text |-> text]

---------------------------------------------------------------------------
(* check_phone: the try/except around _build_result_string                 *)

(* the ValueError clause missing: every Exception answered with 500       *)
check_phone_except_all_500(mro, text) ==
    IF IsException(mro) THEN Response(500, "detail", MSG_INTERNAL) ELSE NoResp

(* the except clauses, for an exception with classes `mro` whose str() is  *)
(* `text`: except ValueError, then except Exception; an exception that is  *)
(* neither leaves check_phone, which builds no response                    *)
check_phone_except(mro, text) ==
    IF IsValueError(mro) THEN Response(200, "result", text)
    ELSE IF IsException(mro) THEN Response(500, "detail", MSG_INTERNAL)
    ELSE NoResp

(* return {"result": result}                                               *)
check_phone_return(result) == Response(200, "result", result)

(* An exception leaves _build_result_string and ends the handler           *)
Fail(r, stage, kind, mro, text) ==
    /\ raised' = [raised EXCEPT ![r] = Exc(stage, kind, mro, text)]
    /\ resp' = [resp EXCEPT ![r] = check_phone_except(mro, text)]
    /\ pc' = [pc EXCEPT ![r] = "done"]

(* await get_user_info_by_phone(client, normalized): the call is issued on *)
(* handle h and the task is suspended                                      *)
IssueLookup(r, h) ==
    /\ client' = [client EXCEPT ![r] = h]
    /\ lookupCalls' = [lookupCalls EXCEPT ![r] = @ + 1]
    /\ pc' = [pc EXCEPT ![r] = "lookup"]

(* the connection obtained before the phone is normalized                  *)
_build_result_string_client_first(r, p) ==
    LET n == _normalize_phone(p)
    IN  IF _client = 0
        THEN /\ loginCalls' = [loginCalls EXCEPT ![r] = @ + 1]
             /\ pc' = [pc EXCEPT ![r] = "login"]
             /\ UNCHANGED <<client, lookupCalls, raised, resp>>
        ELSE IF n.state = "raised"
        THEN /\ Fail(r, "normalize", n.kind, MRO_ValueError, n.val)
             /\ UNCHANGED <<client, loginCalls, lookupCalls>>
        ELSE /\ IssueLookup(r, _client)
             /\ UNCHANGED <<loginCalls, raised, resp>>

(* _build_result_string up to its first suspension: normalize, then        *)
(* _get_or_create_client, which awaits login() when _client is None and    *)
(* returns _client at once otherwise                                       *)
_build_result_string(r, p) ==
    LET n == _normalize_phone(p)
    IN  IF n.state = "raised"
        THEN /\ Fail(r, "normalize", n.kind, MRO_ValueError, n.val)
             /\ UNCHANGED <<client, loginCalls, lookupCalls>>
        ELSE IF _client = 0
        THEN /\ loginCalls' = [loginCalls EXCEPT ![r] = @ + 1]
             /\ pc' = [pc EXCEPT ![r] = "login"]
             /\ UNCHANGED <<client, lookupCalls, raised, resp>>
        ELSE /\ IssueLookup(r, _client)
             /\ UNCHANGED <<loginCalls, raised, resp>>

(* Request tasks are numbered in their order of arrival: task r is the     *)
(* next one to start when every task before it has started                 *)
Arrives(r) == pc[r] = "idle" /\ \A q \in 1..(r - 1) : pc[q] # "idle"

(* GET /check_phone?phone=p                                                *)
check_phone(r) ==
    /\ Arrives(r)
    /\ \E p \in ServicePhones :
          /\ phone' = [phone EXCEPT ![r] = p]
          /\ _build_result_string(r, p)
    /\ route' = [route EXCEPT ![r] = "GET"]
    /\ UNCHANGED <<_client, created, disconnects, spc, sclient, nin, nout, tin, tout>>

(* POST /check_phone {"phone": p}: check_phone(phone=body.phone)           *)
check_phone_post(r) ==
    /\ Arrives(r)
    /\ \E p \in ServicePhones :
          /\ phone' = [phone EXCEPT ![r] = p]
          /\ _build_result_string(r, p)
    /\ route' = [route EXCEPT ![r] = "POST"]
    /\ UNCHANGED <<_client, created, disconnects, spc, sclient, nin, nout, tin, tout>>

(* _get_or_create_client resumes: _client = <the new handle>; return       *)
(* _client; then the lookup is issued on what was returned                 *)
_get_or_create_client_resume(r) ==
    /\ pc[r] = "login"
    /\ _client' = r
    /\ created' = created \cup {r}
    /\ IssueLookup(r, r)
    /\ UNCHANGED <<phone, route, loginCalls, raised, resp, disconnects, spc, sclient,
                   nin, nout, tin, tout>>

(* login() raises: the assignment to _client is not executed               *)
login_raises(r) ==
    /\ pc[r] = "login"
    /\ \E e \in ExternalExcs : Fail(r, "login", e.kind, e.mro, e.text)
    /\ UNCHANGED <<_client, phone, route, client, loginCalls, lookupCalls, created, disconnects,
                   spc, sclient, nin, nout, tin, tout>>

(* get_user_info_by_phone returns: translate and answer; the frame of      *)
(* _build_result_string, and its local `client`, are gone                  *)
lookup_returns(r) ==
    /\ pc[r] = "lookup"
    /\ \E info \in ServiceInfos :
          resp' = [resp EXCEPT ![r] = check_phone_return(TranslateInfo(info))]
    /\ pc' = [pc EXCEPT ![r] = "done"]
    /\ client' = [client EXCEPT ![r] = 0]
    /\ UNCHANGED <<_client, phone, route, loginCalls, lookupCalls, raised, created,
                   disconnects, spc, sclient, nin, nout, tin, tout>>

lookup_raises(r) ==
    /\ pc[r] = "lookup"
    /\ \E e \in ExternalExcs : Fail(r, "lookup", e.kind, e.mro, e.text)
    /\ client' = [client EXCEPT ![r] = 0]
    /\ UNCHANGED <<_client, phone, route, loginCalls, lookupCalls, created, disconnects,
                   spc, sclient, nin, nout, tin, tout>>

---------------------------------------------------------------------------
(* shutdown_event                                                          *)

(* up to the await: nothing to do when _client is None, else               *)
(* _client.disconnect() is called and the task is suspended.  Shutdown     *)
(* tasks too are numbered in the order they start.                         *)
shutdown_event(s) ==
    /\ spc[s] = "idle"
    /\ \A t \in 1..(s - 1) : spc[t] # "idle"
    /\ IF _client # 0
       THEN /\ disconnects' = [disconnects EXCEPT ![_client] = @ + 1]
            /\ sclient' = [sclient EXCEPT ![s] = _client]
            /\ spc' = [spc EXCEPT ![s] = "disconnect"]
       ELSE /\ spc' = [spc EXCEPT ![s] = "noop"]
            /\ UNCHANGED <<disconnects, sclient>>
    /\ UNCHANGED <<_client, pc, phone, route, client, loginCalls, lookupCalls, raised, resp,
                   created, nin, nout, tin, tout>>

(* disconnect() raises: the assignment after it is not executed and the    *)
(* task ends with the exception, _client still set                         *)
shutdown_event_raises(s) ==
    /\ spc[s] = "disconnect"
    /\ spc' = [spc EXCEPT ![s] = "failed"]
    /\ sclient' = [sclient EXCEPT ![s] = 0]
    /\ UNCHANGED <<_client, pc, phone, route, client, loginCalls, lookupCalls, raised, resp,
                   created, disconnects, nin, nout, tin, tout>>

(* disconnect() has returned: _client = None                               *)
shutdown_event_resume(s) ==
    /\ spc[s] = "disconnect"
    /\ _client' = 0
    /\ spc' = [spc EXCEPT ![s] = "done"]
    /\ sclient' = [sclient EXCEPT ![s] = 0]
    /\ UNCHANGED <<pc, phone, route, client, loginCalls, lookupCalls, raised, resp, created,
                   disconnects, nin, nout, tin, tout>>

---------------------------------------------------------------------------
(* The service                                                             *)

ServiceIdle ==
    /\ _client = 0
    /\ pc = [r \in Requests |-> "idle"]
    /\ phone = [r \in Requests |-> <<>>]
    /\ route = [r \in Requests |-> ""]
    /\ client = [r \in Requests |-> 0]
    /\ loginCalls = [r \in Requests |-> 0]
    /\ lookupCalls = [r \in Requests |-> 0]
    /\ raised = [r \in Requests |-> NoExc]
    /\ resp = [r \in Requests |-> NoResp]
    /\ created = {}
    /\ disconnects = [h \in Handles |-> 0]
    /\ spc = [s \in Shutdowns |-> "idle"]
    /\ sclient = [s \in Shutdowns |-> 0]

Init ==
    /\ ServiceIdle
    /\ nin = <<>>
    /\ nout = Pending
    /\ tin = InfoNone
    /\ tout = Pending

Next ==
    \/ \E r \in Requests : check_phone(r)
    \/ \E r \in Requests : check_phone_post(r)
    \/ \E r \in Requests : _get_or_create_client_resume(r)
    \/ \E r \in Requests : login_raises(r)
    \/ \E r \in Requests : lookup_returns(r)
    \/ \E r \in Requests : lookup_raises(r)
    \/ \E s \in Shutdowns : shutdown_event(s)
    \/ \E s \in Shutdowns : shutdown_event_resume(s)
    \/ \E s \in Shutdowns : shutdown_event_raises(s)

Spec == Init /\ [][Next]_vars

---------------------------------------------------------------------------
(* _normalize_phone on its own: one call on each input                     *)

NormChars == {"+", "7", "U+0663", " ", "U+000B", "U+2003", "a"}

(* the i-th character of a run of ASCII digits: 1234567890123...           *)
DigitAt(i) == CASE i % 10 = 0 -> "0" [] i % 10 = 1 -> "1" [] i % 10 = 2 -> "2"
                [] i % 10 = 3 -> "3" [] i % 10 = 4 -> "4" [] i % 10 = 5 -> "5"
                [] i % 10 = 6 -> "6" [] i % 10 = 7 -> "7" [] i % 10 = 8 -> "8"
                [] i % 10 = 9 -> "9"
DigitRun(n) == [i \in 1..n |-> DigitAt(i)]

(* a run of n digits, with a blank after its first half when `gap`         *)
SpacedRun(n, gap) ==
    IF gap THEN SubSeq(DigitRun(n), 1, n \div 2) \o <<" ">>
                \o SubSeq(DigitRun(n), n \div 2 + 1, n)
    ELSE DigitRun(n)

SeqsUpTo(S, k) == UNION { [1..n -> S] : n \in 0..k }

(* any short prefix, a run of 0..MaxRun digits, at most one more character *)
NormInputs ==
    { pre \o SpacedRun(n, gap) \o suf :
        pre \in SeqsUpTo(NormChars, MaxPrefix), n \in 0..MaxRun,
        gap \in BOOLEAN, suf \in SeqsUpTo(NormChars, 1) }

InitNormalize ==
    /\ ServiceIdle
    /\ nin \in NormInputs
    /\ nout = Pending
    /\ tin = InfoNone
    /\ tout = Pending

CallNormalize ==
    /\ nout.state = "pending"
    /\ nout' = _normalize_phone(nin)
    /\ UNCHANGED <<svars, nin, tin, tout>>

SpecNormalize == InitNormalize /\ [][CallNormalize]_vars

---------------------------------------------------------------------------
(* The result translation on its own: one call on each lookup record       *)

Absent == [t |-> "absent", s |-> <<>>, n |-> 0]

ErrorOptions ==
    { Absent, PyNone, PyStr(<<>>),
      PyStr(<<"No response, the phone number is ", "not on Telegram",
              " or has blocked contact adding.">>),
      PyStr(<<"This phone number matched ", "multiple Telegram accounts",
              ", which is unexpected.">>),
      PyStr(<<"multiple Telegram accounts", " and ", "not on Telegram">>),
      PyStr(<<"A wait of 30 seconds is required">>) }
UsernameOptions == { Absent, PyNone, PyStr(<<>>), PyStr(<<"a", "l", "i", "c", "e">>) }
(* the id field: missing, None, a present but falsy identifier (0), a      *)
(* Telegram user id                                                        *)
IdOptions == { Absent, PyNone, PyInt(0), PyInt(123) }

(* the dict holding the keys whose option is not Absent                    *)
MakeDict(e, u, i) ==
    LET opt == [error |-> e, username |-> u, id |-> i]
    IN  [k \in {x \in {"error", "username", "id"} : opt[x] # Absent} |-> opt[k]]

Infos ==
    {InfoNone} \cup
    { InfoDict(MakeDict(e, u, i)) :
        e \in ErrorOptions, u \in UsernameOptions, i \in IdOptions }

InitTranslate ==
    /\ ServiceIdle
    /\ nin = <<>>
    /\ nout = Pending
    /\ tin \in Infos
    /\ tout = Pending

CallTranslate ==
    /\ tout.state = "pending"
    /\ tout' = Returned(TranslateInfo(tin))
    /\ UNCHANGED <<svars, nin, nout, tin>>

SpecTranslate == InitTranslate /\ [][CallTranslate]_vars

---------------------------------------------------------------------------
(* Vocabulary of the properties                                            *)

NotSpace(c) == ~IsSpace(c)

(* s without its whitespace and without one leading '+'                    *)
Core(s) ==
    LET t == SelectSeq(s, NotSpace)
    IN  IF t # <<>> /\ t[1] = "+" THEN Tail(t) ELSE t

(* s can be reduced to '+' followed by 5 to 20 decimal digits              *)
Reducible(s) ==
    /\ Len(Core(s)) >= MinDigits
    /\ Len(Core(s)) <= MaxDigits
    /\ \A i \in 1..Len(Core(s)) : IsDigit(Core(s)[i])

Canonical(s) == <<"+">> \o Core(s)

InFlight(r) == pc[r] \in {"login", "lookup"}

GenericError == Response(500, "detail", MSG_INTERNAL)

(* field k of the record is a non-empty string                             *)
NonEmptyField(info, k) ==
    /\ ~info.none
    /\ k \in DOMAIN info.d
    /\ info.d[k].t = "str"
    /\ Len(info.d[k].s) > 0

(* the record carries an identifier                                        *)
IdPresent(info) ==
    /\ ~info.none
    /\ "id" \in DOMAIN info.d
    /\ info.d["id"].t = "int"

(* the record carries a truthy identifier: present, not None, not 0        *)
IdTruthy(info) ==
    /\ IdPresent(info)
    /\ info.d["id"].n # 0

(* the priority order of the result translator; hasId says whether the     *)
(* record counts as carrying an identifier                                 *)
PriorityOrder(info, hasId) ==
    IF info.none \/ info.d = <<>> THEN MSG_UNKNOWN_ERROR
    ELSE IF NonEmptyField(info, "error")
    THEN IF \E i \in DOMAIN info.d["error"].s : info.d["error"].s[i] = "not on Telegram"
         THEN MSG_NOT_ON_TELEGRAM
         ELSE IF \E i \in DOMAIN info.d["error"].s :
                     info.d["error"].s[i] = "multiple Telegram accounts"
         THEN MSG_MULTIPLE
         ELSE info.d["error"].s
    ELSE IF NonEmptyField(info, "username") THEN <<"@">> \o info.d["username"].s
    ELSE IF hasId THEN MSG_NO_USERNAME
    ELSE MSG_UNDETERMINED

(* the order as stated: any present identifier counts                      *)
ExpectedTranslation(info) == PriorityOrder(info, IdPresent(info))

(* the order with the identifier tested by its truth value                 *)
ExpectedTranslationTruthyId(info) == PriorityOrder(info, IdTruthy(info))

---------------------------------------------------------------------------
(* Properties                                                              *)

(* C1: while the shared handle is absent, however many requests are        *)
(* suspended in _get_or_create_client, login is called at most once (at    *)
(* most one login is in flight), and at most one connection handle exists  *)
(* (created and not yet disconnected) at any time.                         *)
C1_SingleLoginSingleHandle ==
    /\ Cardinality({r \in Requests : pc[r] = "login"}) <= 1
    /\ Cardinality({h \in created : disconnects[h] = 0}) <= 1

(* C2: disconnect is invoked exactly once on the handle a shutdown finds,  *)
(* however many shutdown_event calls there are and however they overlap:   *)
(* once by the shutdown that awaits it, and never more than once.          *)
C2_DisconnectExactlyOnce ==
    /\ \A h \in Handles : disconnects[h] <= 1
    /\ \A s \in Shutdowns : spc[s] = "disconnect" => disconnects[sclient[s]] = 1

(* C3: a request whose phone normalized and whose login or lookup raised   *)
(* an exception, of whatever class derived from Exception, is answered     *)
(* 500 with the fixed generic detail, and the exception's text is not in   *)
(* the response body.                                                      *)
C3_FailureIsGeneric500 ==
    \A r \in Requests :
        ( /\ pc[r] = "done"
          /\ raised[r].stage \in {"login", "lookup"}
          /\ IsException(raised[r].mro) ) =>
            /\ resp[r] = GenericError
            /\ resp[r].text # raised[r].text

(* C4: a request (GET or POST) whose phone cannot be reduced to '+' and 5  *)
(* to 20 digits is answered at once with status 200 and                    *)
(* {result: <the ValueError message of _normalize_phone>}, never with 500. *)
C4_InvalidPhoneAnswered200 ==
    \A r \in Requests :
        (pc[r] # "idle" /\ ~Reducible(phone[r])) =>
            /\ pc[r] = "done"
            /\ route[r] \in {"GET", "POST"}
            /\ raised[r].stage = "normalize"
            /\ raised[r].kind = "ValueError"
            /\ resp[r] = Response(200, "result",
                                  IF phone[r] = <<>> THEN MSG_EMPTY_PHONE
                                  ELSE MSG_BAD_FORMAT)

(* a whitespace-only phone sent by POST and an empty one sent by GET have  *)
(* both been answered 200                                                  *)
C4_Witness ==
    \E r, q \in Requests :
        /\ pc[r] = "done" /\ route[r] = "POST" /\ phone[r] = <<" ">>
        /\ resp[r] = Response(200, "result", MSG_BAD_FORMAT)
        /\ pc[q] = "done" /\ route[q] = "GET" /\ phone[q] = <<>>
        /\ resp[q] = Response(200, "result", MSG_EMPTY_PHONE)

(* C5: the step that takes in a request whose phone fails normalization    *)
(* ends the request, calls neither login nor the lookup, and leaves the    *)
(* shared handle (and every handle) as it was.                             *)
C5_InvalidPhoneNoNetworkCall ==
    [][ \A r \in Requests :
          (pc[r] = "idle" /\ pc'[r] # "idle" /\ ~Reducible(phone'[r])) =>
              /\ pc'[r] = "done"
              /\ loginCalls' = loginCalls
              /\ lookupCalls' = lookupCalls
              /\ client' = client
              /\ _client' = _client
              /\ created' = created
              /\ disconnects' = disconnects ]_vars

(* a request with an invalid phone has ended, with no login and no lookup  *)
(* of its own, once while the handle was absent and once while it was      *)
(* present                                                                 *)
C5_Witness ==
    \E r, q \in Requests :
        /\ r # q
        /\ pc[r] = "done" /\ raised[r].stage = "normalize"
        /\ loginCalls[r] = 0 /\ lookupCalls[r] = 0
        /\ pc[q] = "lookup" /\ _client = q

(* C6, as stated: the translator returns exactly the string the priority   *)
(* order selects: absent/empty record, then a non-empty error field (the   *)
(* two known phrases, else the raw text), then a non-empty username, then  *)
(* a present identifier, else the "could not determine" message.           *)
(* Fails on {"id": 0}: the identifier is present, and line 85 tests its    *)
(* truth value.                                                            *)
C6_TranslationPriority ==
    tout.state = "returned" => tout.val = ExpectedTranslation(tin)

(* C6, amended: the same priority order, where the "no username set"       *)
(* message is selected by a truthy identifier (present, not None, not 0);  *)
(* a record whose only usable field is the identifier 0 gets the "could    *)
(* not determine" message.                                                 *)
C6_TranslationPriorityTruthyId ==
    tout.state = "returned" => tout.val = ExpectedTranslationTruthyId(tin)

(* a record with an error text, a username and an id was translated to     *)
(* its raw error text                                                      *)
C6_Witness ==
    /\ tout.state = "returned"
    /\ NonEmptyField(tin, "error")
    /\ NonEmptyField(tin, "username")
    /\ IdTruthy(tin)
    /\ tout.val = tin.d["error"].s
    /\ tout.val \notin {MSG_NOT_ON_TELEGRAM, MSG_MULTIPLE}

(* C7: _normalize_phone returns exactly when its argument, whitespace      *)
(* removed and '+' prepended if missing, is '+' and 5 to 20 digits, and    *)
(* then returns that string; otherwise it raises ValueError.               *)
C7_NormalizeExactly ==
    nout.state # "pending" =>
        IF Reducible(nin)
        THEN nout = Returned(Canonical(nin))
        ELSE /\ nout.state = "raised"
             /\ nout.kind = "ValueError"
             /\ nout.val \in {MSG_EMPTY_PHONE, MSG_BAD_FORMAT}

(* an argument with whitespace and no leading '+' was normalized to '+'    *)
(* and the longest run of digits allowed                                   *)
C7_Witness ==
    /\ nout.state = "returned"
    /\ nin[1] # "+"
    /\ \E i \in 1..Len(nin) : IsSpace(nin[i])
    /\ Len(nout.val) = MaxDigits + 1

(* C8: while a handle is stored it is not replaced by another one, and     *)
(* every lookup issued while a handle is stored is issued on that handle.  *)
C8_StoredHandleReused ==
    [][ /\ (_client # 0 /\ _client' # 0) => _client' = _client
        /\ \A r \in Requests :
              (_client # 0 /\ pc[r] # "lookup" /\ pc'[r] = "lookup") =>
                  client'[r] = _client ]_vars

(* C9: the step in which a request's login fails ends the request with    *)
(* the failure (the generic 500, the exception's message, or the           *)
(* exception itself leaving the handler), after exactly one login call     *)
(* and no lookup, and leaves the shared handle absent, so that the next    *)
(* request logs in.                                                        *)
C9_LoginFailureLeavesNoHandle ==
    [][ \A r \in Requests :
          (pc[r] = "login" /\ pc'[r] = "done") =>
              /\ raised'[r].stage = "login"
              /\ loginCalls'[r] = 1
              /\ lookupCalls'[r] = 0
              /\ resp'[r] \in {GenericError, Response(200, "result", raised'[r].text),
                             NoResp}
              /\ _client' = 0 ]_vars

(* C10: once a shutdown that found a handle has completed, with neither   *)
(* a request nor a shutdown in flight and nothing stored since, every      *)
(* handle a login returned has had disconnect invoked on it.               *)
C10_NoHandleLeftConnected ==
    ( /\ \E s \in Shutdowns : spc[s] = "done"
      /\ \A s \in Shutdowns : spc[s] # "disconnect"
      /\ \A r \in Requests : ~InFlight(r)
      /\ _client = 0 ) =>
        \A h \in created : disconnects[h] >= 1

=============================================================================
